---------------------------- MODULE Spec2Model ----------------------------
(***************************************************************************)
(* A model of the AI dubbing service: the job endpoint and background task *)
(* of src/main.py, the orchestrator of src/services/dubbing_service.py,    *)
(* the segment filter and batch translator of                              *)
(* src/services/translation_service.py and the voice resolver of           *)
(* src/services/voice_service.py.                                          *)
(*                                                                         *)
(* Strings.  A transcript text is a sequence of one-character strings, so  *)
(* that len() and strip() are computed as Python computes them.  A voice   *)
(* id is a sequence of pieces (a space, the prefix "demo_", or a run of    *)
(* other characters), which is all strip() and startswith("demo_") read.   *)
(* A language code is a sequence of characters.  Python's None is the      *)
(* value None below, different from every string.                          *)
(***************************************************************************)
EXTENDS Integers, Sequences, FiniteSets, TLC

VARIABLES
    background_jobs,     \* main.py: the job map, job id -> status record
    http_status,         \* status code of the last POST /api/dub-video (0: none)
    pending,             \* background tasks added and not yet started
    pc,                  \* where the running process_dubbing / dub_video is
    job,                 \* process_dubbing: job_id
    req,                 \* process_dubbing: target_language, voice_id, clone_original_voice
    original_video,      \* dub_video: original_video
    transcript,          \* dub_video: transcript
    source_language,     \* dub_video: source_language
    translated_segments, \* dub_video: translated_segments
    voice_id,            \* dub_video: voice_id after step 6
    audio_file_path,     \* dub_video: audio_file_path
    dubbed_video_url,    \* dub_video: dubbed_video_url
    result,              \* process_dubbing: result (the DubbingResult)
    calls,               \* the external calls the running job has made, in order
    files,               \* the temporary files that exist
    lookup_language,     \* get_default_voice_id: language (lookup specification)
    lookups              \* the default-voice lookups made, in order

vars == << background_jobs, http_status, pending, pc, job, req, original_video,
           transcript, source_language, translated_segments, voice_id,
           audio_file_path, dubbed_video_url, result, calls, files,
           lookup_language, lookups >>

-----------------------------------------------------------------------------
(* Bounds *)

\* longest generated transcript of the translator specification
MaxSegs == 2

\* number of default-voice lookups of the lookup specification
MaxLookups == 2

-----------------------------------------------------------------------------
(* Strings *)

None == << "<None>" >>

Unset == << "<unset>" >>

RECURSIVE LStrip(_)
LStrip(s) == IF s # << >> /\ Head(s) = " " THEN LStrip(Tail(s)) ELSE s

RECURSIVE RStrip(_)
RStrip(s) ==
    IF s # << >> /\ s[Len(s)] = " " THEN RStrip(SubSeq(s, 1, Len(s) - 1)) ELSE s

\* str.strip(); the text is taken as a value, so that it is evaluated once
Strip(s) == CHOOSE t \in { RStrip(LStrip(v)) : v \in {s} } : TRUE

\* str.startswith(prefix)
StartsWith(s, prefix) ==
    Len(s) >= Len(prefix) /\ SubSeq(s, 1, Len(prefix)) = prefix

LowerChar(c) ==
    CASE c = "E" -> "e"
      [] c = "N" -> "n"
      [] c = "S" -> "s"
      [] OTHER -> c

\* str.lower()
Lower(s) == [i \in 1..Len(s) |-> LowerChar(s[i])]

Digits == << "0", "1", "2", "3", "4", "5", "6", "7", "8", "9" >>

\* str(i) for an index i >= 0
RECURSIVE Str(_)
Str(i) ==
    IF i < 10 THEN << Digits[i + 1] >>
    ELSE Str(i \div 10) \o << Digits[(i % 10) + 1] >>

Dash == << "-" >>
Quote == "\""
Apostrophe == "'"

Hola == << "H", "o", "l", "a" >>
Mundo == << "m", "u", "n", "d", "o" >>
Hello == << "H", "e", "l", "l", "o" >>
World == << "w", "o", "r", "l", "d" >>

-----------------------------------------------------------------------------
(* Transcript segments *)

\* A segment as the transcription collaborator returns it: a dict (kind
\* "dict", with or without the key text), an object with an attribute text
\* that is no dict (kind "object"), or any other value (kind "other").
DictSeg(start, end, text) ==
    [kind |-> "dict", start |-> start, end |-> end, text |-> text]

\* dict.get('text', '')
GetText(seg) == IF "text" \in DOMAIN seg THEN seg.text ELSE << >>

\* dict.copy() followed by d[name] = val
SetField(seg, name, val) ==
    [f \in (DOMAIN seg) \cup {name} |-> IF f = name THEN val ELSE seg[f]]

\* the test without len(text) > 1
KeepsSingleCharacters(text) == text # << >> /\ text # Dash

\* the test of lines 152 and 158: text and text != '-' and len(text) > 1
WorthTranslating(text) == text # << >> /\ text # Dash /\ Len(text) > 1

FilterKeeps(seg) ==
    CASE seg.kind = "dict" -> WorthTranslating(Strip(GetText(seg)))
      [] seg.kind = "object" -> WorthTranslating(Strip(seg.text))
      [] OTHER -> TRUE

\* filtered_segments of translate_transcript_segments
FilterSegments(segments) == SelectSeq(segments, FilterKeeps)

FilterDrops(seg) == ~FilterKeeps(seg)

\* empty_segments of translate_transcript_segments
EmptySegments(segments) == Len(SelectSeq(segments, FilterDrops))


-----------------------------------------------------------------------------
(* The translation collaborator and translate_text *)

RateLimitMessage ==
    "Translation service temporarily unavailable - rate limit exceeded. Please try again later."
AuthMessage == "Translation service authentication failed. Please check API key."
InvalidJsonMessage == "Translation service returned invalid response format."

\* What an operation returns (ok, value) or raises (~ok, error); calls are
\* the external calls it made.
Returned(value, made) == [ok |-> TRUE, value |-> value, error |-> "", calls |-> made]
Raised(error, made) == [ok |-> FALSE, value |-> << >>, error |-> error, calls |-> made]

\* one external call: the operation, what was sent, what came back
Call(op, arg, reply) == [op |-> op, arg |-> arg, reply |-> reply]

\* A reply of the chat-completion endpoint to one request: generated text,
\* or one of the errors the client raises.
ErrorReply(kind) == [kind |-> kind, content |-> << >>, map |-> << >>]
TextReply(content) == [kind |-> "ok", content |-> content, map |-> << >>]
JsonReply(map) == [kind |-> "json", content |-> << >>, map |-> map]

\* The replies to an individual translation request.  None of them holds one
\* of the preamble phrases of unwanted_patterns, so that loop changes nothing.
TextReplies ==
    { TextReply(<< " " >> \o Hello), TextReply(<< Quote >> \o World \o << Quote >>),
      ErrorReply("rate_limit"), ErrorReply("auth"), ErrorReply("error") }

\* lines 112-115: one layer of quotes q around the whole text is removed
Unquote(s, q) ==
    IF s # << >> /\ s[1] = q /\ s[Len(s)] = q
    THEN Strip(SubSeq(s, 2, Len(s) - 1))
    ELSE s

\* error handlers that do not tell the rate limit and the authentication
\* failure from other failures
GenericErrorMessage(kind) == "translation request failed"

ErrorMessage(kind) ==
    CASE kind = "rate_limit" -> RateLimitMessage
      [] kind = "auth" -> AuthMessage
      [] OTHER -> "translation request failed"

\* translate_text(text, target_language), given the collaborator's reply
TranslateText(text, reply) ==
    IF reply.kind = "ok"
    THEN Returned(Unquote(Unquote(Strip(reply.content), Quote), Apostrophe),
                  << Call("translate_text", text, reply) >>)
    ELSE Raised(ErrorMessage(reply.kind), << Call("translate_text", text, reply) >>)

-----------------------------------------------------------------------------
(* translate_transcript_segments *)

\* the values the batch reply may hold under a key
TransTexts == { Hello, World, << "I" >> }

\* lines 171-175: the positions of filtered whose text goes into the batch
BatchPositions(filtered) ==
    { i \in 1..Len(filtered) :
        LET text == Strip(GetText(filtered[i])) IN text # << >> /\ text # Dash }

\* texts_to_translate keyed from 1
TextsToTranslateFromOne(filtered) ==
    [k \in { Str(i) : i \in BatchPositions(filtered) } |->
        LET i == CHOOSE j \in BatchPositions(filtered) : Str(j) = k
        IN Strip(GetText(filtered[i]))]

\* texts_to_translate: key str(i) -> text, i the 0-based position in filtered
TextsToTranslate(filtered) ==
    [k \in { Str(i - 1) : i \in BatchPositions(filtered) } |->
        LET i == CHOOSE j \in BatchPositions(filtered) : Str(j - 1) = k
        IN Strip(GetText(filtered[i]))]

\* The replies to the batch request for texts_to_translate = batch: an error,
\* text that is no JSON, or a JSON object holding any subset of the keys.
BatchReplies(batch) ==
    { ErrorReply("rate_limit"), ErrorReply("auth"), ErrorReply("error"),
      ErrorReply("invalid_json") }
    \cup { JsonReply(m) : m \in UNION { [K -> TransTexts] : K \in SUBSET (DOMAIN batch) } }

\* a merge loop without the individual request
NeverFallback(filtered, i, map) == FALSE

\* line 228: the segment at position i is translated individually
NeedsFallback(filtered, i, map) ==
    LET original_text == Strip(GetText(filtered[i]))
    IN /\ Str(i - 1) \notin DOMAIN map
       /\ original_text # << >> /\ original_text # Dash /\ Len(original_text) > 0

FallbackPositions(filtered, map) ==
    { i \in 1..Len(filtered) : NeedsFallback(filtered, i, map) }

\* lines 219-245 for one segment; fb[i] is the collaborator's reply to the
\* individual request for position i
MergeSegment(filtered, i, map, fb) ==
    LET segment == filtered[i]
        original_text == Strip(GetText(segment))
        translated_text ==
            IF Str(i - 1) \in DOMAIN map THEN map[Str(i - 1)]
            ELSE IF NeedsFallback(filtered, i, map)
                 THEN LET r == TranslateText(original_text, fb[i])
                      IN IF r.ok THEN r.value ELSE original_text
                 ELSE original_text
    IN SetField(SetField(segment, "text", translated_text),
                "original_text", original_text)

\* the individual requests of the merge loop, in the loop's order
RECURSIVE FallbackCalls(_, _, _, _)
FallbackCalls(filtered, i, map, fb) ==
    IF i > Len(filtered) THEN << >>
    ELSE (IF NeedsFallback(filtered, i, map)
          THEN TranslateText(Strip(GetText(filtered[i])), fb[i]).calls
          ELSE << >>)
         \o FallbackCalls(filtered, i + 1, map, fb)

\* a merge loop that skips the segments left untranslated
TranslateDroppingUntranslated(segments, reply, fb) ==
    LET filtered == FilterSegments(segments)
        batch == TextsToTranslate(filtered)
        sent == << Call("batch_translate", batch, reply) >>
        Changed(seg) == seg.text # seg.original_text
    IN IF \E i \in 1..Len(filtered) : filtered[i].kind # "dict"
       THEN Raised("AttributeError: segment has no attribute 'get'", << >>)
       ELSE IF DOMAIN batch = {} THEN Returned(<< >>, << >>)
       ELSE IF reply.kind = "invalid_json" THEN Raised(InvalidJsonMessage, sent)
       ELSE IF reply.kind # "json" THEN Raised(ErrorMessage(reply.kind), sent)
       ELSE Returned(SelectSeq([i \in 1..Len(filtered) |->
                                   MergeSegment(filtered, i, reply.map, fb)], Changed),
                     sent \o FallbackCalls(filtered, 1, reply.map, fb))

\* a batch reply that is no JSON treated as an empty JSON object
TranslateIgnoringInvalidJson(segments, reply, fb) ==
    LET filtered == FilterSegments(segments)
        batch == TextsToTranslate(filtered)
        sent == << Call("batch_translate", batch, reply) >>
    IN IF \E i \in 1..Len(filtered) : filtered[i].kind # "dict"
       THEN Raised("AttributeError: segment has no attribute 'get'", << >>)
       ELSE IF DOMAIN batch = {} THEN Returned(<< >>, << >>)
       ELSE IF reply.kind \notin {"json", "invalid_json"}
            THEN Raised(ErrorMessage(reply.kind), sent)
       ELSE Returned([i \in 1..Len(filtered) |-> MergeSegment(filtered, i, reply.map, fb)],
                     sent \o FallbackCalls(filtered, 1, reply.map, fb))

\* a translator that sends the batch request for an empty map as well
TranslateSendingEmptyBatch(segments, reply, fb) ==
    LET filtered == FilterSegments(segments)
        batch == TextsToTranslate(filtered)
        sent == << Call("batch_translate", batch, reply) >>
    IN IF \E i \in 1..Len(filtered) : filtered[i].kind # "dict"
       THEN Raised("AttributeError: segment has no attribute 'get'", << >>)
       ELSE IF reply.kind = "invalid_json" THEN Raised(InvalidJsonMessage, sent)
       ELSE IF reply.kind # "json" THEN Raised(ErrorMessage(reply.kind), sent)
       ELSE Returned([i \in 1..Len(filtered) |-> MergeSegment(filtered, i, reply.map, fb)],
                     sent \o FallbackCalls(filtered, 1, reply.map, fb))

\* translate_transcript_segments(segments, target_language), given the reply
\* to the batch request and the replies fb to the individual requests
TranslateTranscriptSegments(segments, reply, fb) ==
    LET filtered == FilterSegments(segments)
        batch == TextsToTranslate(filtered)
        sent == << Call("batch_translate", batch, reply) >>
    IN IF \E i \in 1..Len(filtered) : filtered[i].kind # "dict"
       THEN Raised("AttributeError: segment has no attribute 'get'", << >>)
       ELSE IF DOMAIN batch = {} THEN Returned(<< >>, << >>)
       ELSE IF reply.kind = "invalid_json" THEN Raised(InvalidJsonMessage, sent)
       ELSE IF reply.kind # "json" THEN Raised(ErrorMessage(reply.kind), sent)
       ELSE Returned([i \in 1..Len(filtered) |-> MergeSegment(filtered, i, reply.map, fb)],
                     sent \o FallbackCalls(filtered, 1, reply.map, fb))

-----------------------------------------------------------------------------
(* Languages and language detection *)

en == << "e", "n" >>
es == << "e", "s" >>
fr == << "f", "r" >>
de == << "d", "e" >>
it == << "i", "t" >>
pt == << "p", "t" >>
ru == << "r", "u" >>
ja == << "j", "a" >>
ko == << "k", "o" >>
zh == << "z", "h" >>
hi == << "h", "i" >>
ar == << "a", "r" >>

\* config.SUPPORTED_LANGUAGES
SupportedLanguages == { en, es, fr, de, it, pt, ru, ja, ko, zh, hi, ar }

\* The replies to the detection request: generated text, an error, or a
\* response without choices[0].message.content to call strip() on.
DetectReplies ==
    { TextReply(es), TextReply(<< " ", "E", "N", " " >>),
      TextReply(<< "S", "p", "a", "n", "i", "s", "h" >>), ErrorReply("error"),
      ErrorReply("malformed") }

\* a detection without the except branch: no default code
DetectLanguageWithoutDefault(reply) == Lower(Strip(reply.content))

\* detect_language(text), given the collaborator's reply
DetectLanguage(reply) ==
    IF reply.kind = "ok" THEN Lower(Strip(reply.content)) ELSE en

-----------------------------------------------------------------------------
(* Voices *)

DemoPrefix == << "demo_" >>
DemoMultilingual == << "demo_", "multilingual_1" >>
DemoEnglish == << "demo_", "english_1" >>
GlobalDefaultVoice == << "EXAVITQu4vr4xnSDxMaL" >>
ClonedVoice == << "cloned_voice_1" >>
FemaleVoice == << "voice_f1" >>
MaleVoice == << "voice_m1" >>

Voice(id, gender) == [voice_id |-> id, gender |-> gender]

\* The replies of the voice-listing endpoint: an error, or a list of voices
\* each with its id and its gender label.
ListingError == [kind |-> "error", voices |-> << >>]
Listing(voices) == [kind |-> "ok", voices |-> voices]
ListingReplies ==
    { ListingError, Listing(<< >>), Listing(<< Voice(FemaleVoice, "female") >>),
      Listing(<< Voice(FemaleVoice, "female"), Voice(MaleVoice, "male") >>),
      Listing(<< Voice(DemoEnglish, "male") >>) }

\* get_available_voices() that passes the failure on to the lookup
GetAvailableVoicesOrRaise(reply) ==
    IF reply.kind = "ok" THEN reply.voices ELSE << [voice_id |-> None] >>

\* get_available_voices(), given the collaborator's reply
GetAvailableVoices(reply) ==
    IF reply.kind = "ok" THEN reply.voices
    ELSE << [voice_id |-> DemoMultilingual], [voice_id |-> DemoEnglish] >>

IsMale(v) == "gender" \in DOMAIN v /\ v.gender = "male"

\* a lookup that knows the global default only
GlobalDefaultOnly(language) == GlobalDefaultVoice

\* language_defaults.get(language, "EXAVITQu4vr4xnSDxMaL")
LanguageDefault(language) ==
    CASE language = en -> << "IKne3meq5aSn9XLyUdCD" >>
      [] language = es -> << "JBFqnCBsd6RMkjVDRZzb" >>
      [] language = fr -> << "N2lVS1w4EtoT3dr4eOWO" >>
      [] language = de -> << "TX3LPaxmHKxFdv7VOQHJ" >>
      [] language = it -> << "bIHbv24MWmeRgasZH58o" >>
      [] language = pt -> << "cjVigY5qzO86Huf0OWal" >>
      [] language = ru -> << "iP95p4xoKVk53GoZ742B" >>
      [] language = ja -> << "nPczCjzI2devNBz1zQrb" >>
      [] language = ko -> << "onwK4e9ZLuTAKqWW03F9" >>
      [] language = zh -> << "pqHfZKP75CvOlQylNhV4" >>
      [] language = hi -> << "IKne3meq5aSn9XLyUdCD" >>
      [] language = ar -> << "onwK4e9ZLuTAKqWW03F9" >>
      [] OTHER -> GlobalDefaultVoice

\* get_default_voice_id(language), given the listing collaborator's reply.
\* A first voice whose voice_id is null makes startswith raise, and the
\* except branch returns the demo voice.
GetDefaultVoiceId(language, reply) ==
    LET voices == GetAvailableVoices(reply)
        male_voices == SelectSeq(voices, IsMale)
    IN IF voices # << >> /\ voices[1].voice_id = None THEN DemoMultilingual
       ELSE IF voices # << >> /\ ~StartsWith(voices[1].voice_id, DemoPrefix)
            THEN IF male_voices # << >> THEN male_voices[1].voice_id
                 ELSE voices[1].voice_id
            ELSE LanguageDefault(language)

\* file_size < 1024
MinCloneBytes == 1024

CloneTmp == "clone_sample.mp3"

\* What the collaborators of _clone_original_voice do in one run: the audio
\* accessor of the video (none found, a falsy stream, an error, a stream),
\* the download, the size of the sample, the cloning request.
Scenario(extract, download_ok, size, clone_ok) ==
    [extract |-> extract, download_ok |-> download_ok, size |-> size,
     clone_ok |-> clone_ok]
CloneScenarios ==
    { Scenario("no_accessor", FALSE, 0, FALSE), Scenario("falsy", FALSE, 0, FALSE),
      Scenario("error", FALSE, 0, FALSE), Scenario("ok", FALSE, 0, FALSE),
      Scenario("ok", TRUE, MinCloneBytes - 1, TRUE),
      Scenario("ok", TRUE, MinCloneBytes, FALSE),
      Scenario("ok", TRUE, MinCloneBytes, TRUE) }

\* What voice resolution yields: the voice id, the temporary files it left
\* behind, the external calls it made.
Resolved(id, left, made) == [voice_id |-> id, left |-> left, calls |-> made]

\* the fallback of every failing branch: get_default_voice_id(target_language)
FallBackToDefault(language, reply, left, made) ==
    Resolved(GetDefaultVoiceId(language, reply), left,
             made \o << Call("list_voices", << >>, reply) >>)

\* _clone_original_voice(video, target_language)
CloneOriginalVoice(language, sc, reply) ==
    LET extracted == << Call("extract_audio", << >>, sc.extract) >>
        downloaded ==
            extracted
            \o << Call("download_audio", << >>, IF sc.download_ok THEN "ok" ELSE "error") >>
        cloned ==
            downloaded
            \o << Call("clone_voice", << >>, IF sc.clone_ok THEN "ok" ELSE "error") >>
    IN CASE sc.extract = "no_accessor" -> FallBackToDefault(language, reply, {}, << >>)
         [] sc.extract \in {"falsy", "error"} ->
                FallBackToDefault(language, reply, {}, extracted)
         [] ~sc.download_ok -> FallBackToDefault(language, reply, {}, downloaded)
         [] sc.size < MinCloneBytes -> FallBackToDefault(language, reply, {}, downloaded)
         [] ~sc.clone_ok -> FallBackToDefault(language, reply, {CloneTmp}, cloned)
         [] OTHER -> Resolved(ClonedVoice, {}, cloned)

\* a test for the absent id only
IsAbsent(id) == id = None

\* not voice_id or voice_id.strip() == ""
IsBlank(id) == id = None \/ id = << >> \/ Strip(id) = << >>

\* step 6 with the supplied id tested before the clone flag
SelectVoiceSuppliedFirst(language, supplied, clone, sc, reply) ==
    IF ~IsBlank(supplied) THEN Resolved(supplied, {}, << >>)
    ELSE IF clone THEN CloneOriginalVoice(language, sc, reply)
    ELSE FallBackToDefault(language, reply, {}, << >>)

\* dub_video, step 6
SelectVoice(language, supplied, clone, sc, reply) ==
    IF clone THEN CloneOriginalVoice(language, sc, reply)
    ELSE IF IsBlank(supplied) THEN FallBackToDefault(language, reply, {}, << >>)
    ELSE Resolved(supplied, {}, << >>)

-----------------------------------------------------------------------------
(* Inputs of the pipeline *)

\* the ids uuid4 draws from
JobIds == { "job-1" }

\* target languages a request may name; xx is not supported
xx == << "x", "x" >>
RequestLanguages == { en, es, xx }

\* voice ids a request may carry: absent, empty, blank, a voice id, a demo
\* voice that GET /api/voices lists when the listing endpoint is unavailable
SuppliedVoice == << " ", "voice_u1" >>
RequestVoiceIds == { None, << >>, << " " >>, SuppliedVoice, DemoMultilingual }

\* the transcript of the end-to-end scenario (times in tenths of a second)
ExampleTranscript ==
    << DictSeg(0, 20, Hola), DictSeg(20, 25, Dash), DictSeg(25, 40, Mundo) >>

ObjectSeg(start, end, text) ==
    [kind |-> "object", start |-> start, end |-> end, text |-> text]

\* the transcripts the transcription collaborator returns to a job: none
\* of them has more than one segment that the filter keeps
Transcripts ==
    { << >>,
      << DictSeg(0, 8, << " ", "-", " " >>), DictSeg(10, 18, << "a" >>) >>,
      << DictSeg(0, 8, << " " >> \o Hola \o << " " >>), DictSeg(10, 18, Dash) >>,
      << DictSeg(0, 8, Hola), ObjectSeg(10, 18, Mundo) >> }

\* the segments the transcription collaborator may return at position i
SegmentsAt(i) ==
    LET start == 10 * (i - 1)
        end == start + 8
    IN { DictSeg(start, end, text) :
            text \in { << >>, << " ", "-", " " >>, << " ", "a" >>,
                       << "a", "b", " " >>, Hola } }
       \cup { [kind |-> "dict", start |-> start, end |-> end],
              ObjectSeg(start, end, Mundo),
              [kind |-> "other", start |-> start, end |-> end] }

RECURSIVE TranscriptsOfLength(_)
TranscriptsOfLength(n) ==
    IF n = 0 THEN { << >> }
    ELSE { Append(t, seg) : t \in TranscriptsOfLength(n - 1), seg \in SegmentsAt(n) }

\* the transcripts given to the translator in the translator specification
TranslatorInputs ==
    { ExampleTranscript } \cup UNION { TranscriptsOfLength(n) : n \in 0..MaxSegs }

SynthTmp == "synth_audio.mp3"
DemoAudioPath == "demo_mode_translation_complete.txt"
OriginalStream == "stream of the original video"
DubbedStream == "stream of the dubbed video"
PlaceholderUrl ==
    "https://commondatastorage.googleapis.com/gtv-videos-bucket/sample/BigBuckBunny.mp4"

NoVideo == [id |-> ""]
NoTranscript == [segments |-> << >>, video_id |-> ""]
NoRequest == [target_language |-> Unset, voice_id |-> Unset, clone_original_voice |-> FALSE]
NoResult ==
    [video_url |-> "", original_video_id |-> "", target_language |-> Unset,
     voice_id |-> Unset, transcript |-> NoTranscript, translated_transcript |-> << >>,
     audio_file_path |-> ""]

-----------------------------------------------------------------------------
(* The job map *)

\* dict.update(fields)
Update(record, fields) ==
    [f \in (DOMAIN record) \cup (DOMAIN fields) |->
        IF f \in DOMAIN fields THEN fields[f] ELSE record[f]]

\* an update that reaches every record of the map
PutAll(jobs, id, record) == [k \in (DOMAIN jobs) \cup {id} |-> record]

\* background_jobs[job_id] = record
Put(jobs, id, record) ==
    [j \in (DOMAIN jobs) \cup {id} |-> IF j = id THEN record ELSE jobs[j]]

\* a failure recorded under a status of its own and without a progress
FailedFieldsAsError(error) ==
    [status |-> "error", progress |-> -1, message |-> << "Dubbing failed: ", error >>]

\* the update of the except branch of process_dubbing
FailedFields(error) ==
    [status |-> "failed", progress |-> 0, message |-> << "Dubbing failed: ", error >>]

\* the update of process_dubbing after dub_video has returned
CompletedFields(r) ==
    [status |-> "completed", progress |-> 100,
     message |-> << "AI Dubbing completed successfully!" >>,
     result |-> [video_url |-> r.video_url, target_language |-> r.target_language,
                 voice_id |-> r.voice_id, demo_mode |-> TRUE]]

-----------------------------------------------------------------------------
(* Initial state *)

LookupIdle == lookup_language = Unset /\ lookups = << >>

Init ==
    /\ background_jobs = << >>
    /\ http_status = 0
    /\ pending = << >>
    /\ pc = "idle"
    /\ job = ""
    /\ req = NoRequest
    /\ original_video = NoVideo
    /\ transcript = NoTranscript
    /\ source_language = Unset
    /\ translated_segments = << >>
    /\ voice_id = Unset
    /\ audio_file_path = ""
    /\ dubbed_video_url = ""
    /\ result = NoResult
    /\ calls = << >>
    /\ files = {}
    /\ LookupIdle

locals == << original_video, transcript, source_language, translated_segments,
             voice_id, audio_file_path, dubbed_video_url, result >>
lookup_vars == << lookup_language, lookups >>

-----------------------------------------------------------------------------
(* POST /api/dub-video *)

\* dub_video of main.py.  The HTTPException of status 400 is raised inside the
\* try block whose except branch catches every Exception and raises one of
\* status 500.  The handler runs on the event loop, so only while no
\* background task is running.
SubmitJobOf(ids) ==
    /\ pc = "idle"
    /\ \E target \in RequestLanguages, supplied \in RequestVoiceIds, clone \in BOOLEAN :
         IF target \notin SupportedLanguages
         THEN /\ http_status' = 500
              /\ UNCHANGED << background_jobs, pending >>
         ELSE /\ ids \ DOMAIN background_jobs # {}
              /\ LET job_id == CHOOSE id \in ids : id \notin DOMAIN background_jobs
                 IN /\ background_jobs' =
                          Put(background_jobs, job_id,
                              [status |-> "started", progress |-> 0,
                               message |-> << "Starting dubbing process..." >>])
                    /\ pending' =
                          Append(pending,
                                 [job_id |-> job_id, target_language |-> target,
                                  voice_id |-> supplied, clone_original_voice |-> clone])
              /\ http_status' = 200
    /\ UNCHANGED << pc, job, req, locals, calls, files, lookup_vars >>

SubmitJob == SubmitJobOf(JobIds)

-----------------------------------------------------------------------------
(* process_dubbing and dub_video of DubbingService *)

\* an except branch that ends the task without recording the failure
FailWithoutUpdate(error) ==
    /\ background_jobs' = background_jobs
    /\ pc' = "done"

\* an exception leaves dub_video and reaches the except branch of process_dubbing
Fail(error) ==
    /\ background_jobs' =
          Put(background_jobs, job, Update(background_jobs[job], FailedFields(error)))
    /\ pc' = "done"

\* process_dubbing up to the call of dub_video: the two progress updates
StartTask ==
    /\ pc = "idle"
    /\ pending # << >>
    /\ LET task == Head(pending)
       IN /\ job' = task.job_id
          /\ req' = [target_language |-> task.target_language, voice_id |-> task.voice_id,
                     clone_original_voice |-> task.clone_original_voice]
          /\ background_jobs' =
                Put(background_jobs, task.job_id,
                    Update(Update(background_jobs[task.job_id],
                                  [status |-> "processing", progress |-> 10,
                                   message |-> << "Uploading video to VideoDB..." >>]),
                           [status |-> "processing", progress |-> 30,
                            message |-> << "Extracting transcript..." >>]))
    /\ pending' = Tail(pending)
    /\ pc' = "upload"
    /\ calls' = << >>
    /\ UNCHANGED << http_status, locals, files, lookup_vars >>

\* step 1
Upload ==
    /\ pc = "upload"
    /\ \E ok \in BOOLEAN :
         /\ calls' = Append(calls, Call("upload", << >>, IF ok THEN "ok" ELSE "error"))
         /\ IF ok
            THEN /\ original_video' = [id |-> "video-1"]
                 /\ pc' = "transcript"
                 /\ UNCHANGED background_jobs
            ELSE /\ Fail("upload failed")
                 /\ UNCHANGED original_video
    /\ UNCHANGED << http_status, pending, job, req, transcript, source_language,
                    translated_segments, voice_id, audio_file_path, dubbed_video_url,
                    result, files, lookup_vars >>

\* step 2
GetTranscript ==
    /\ pc = "transcript"
    /\ \/ \E segments \in Transcripts :
            /\ calls' = Append(calls, Call("get_transcript", << >>, "ok"))
            /\ transcript' = [segments |-> segments, video_id |-> original_video.id]
            /\ pc' = "detect"
            /\ UNCHANGED background_jobs
       \/ /\ calls' = Append(calls, Call("get_transcript", << >>, "error"))
          /\ Fail("transcript extraction failed")
          /\ UNCHANGED transcript
    /\ UNCHANGED << http_status, pending, job, req, original_video, source_language,
                    translated_segments, voice_id, audio_file_path, dubbed_video_url,
                    result, files, lookup_vars >>

\* original_text set to the trimmed text, as the translator sets it
MirroredTrimmed(segments) ==
    [i \in 1..Len(segments) |->
        IF segments[i].kind = "dict"
        THEN SetField(segments[i], "original_text", Strip(GetText(segments[i])))
        ELSE segments[i]]

\* lines 94-98: original_text is added to the dicts of transcript['segments']
Mirrored(segments) ==
    [i \in 1..Len(segments) |->
        IF segments[i].kind = "dict"
        THEN SetField(segments[i], "original_text", GetText(segments[i]))
        ELSE segments[i]]

\* step 5 reads segment['text'] of every segment
Subscriptable(segments) ==
    \A i \in 1..Len(segments) :
        segments[i].kind = "dict" /\ "text" \in DOMAIN segments[i]

\* step 3, and the branch of line 91 when the languages are equal: there
\* translated_segments is the list transcript['segments'] itself
DetectSourceLanguage ==
    /\ pc = "detect"
    /\ \E reply \in DetectReplies :
         LET detected == DetectLanguage(reply)
             mirrored == Mirrored(transcript.segments)
         IN /\ calls' = Append(calls, Call("detect_language", << >>, reply))
            /\ source_language' = detected
            /\ IF detected = req.target_language
               THEN /\ transcript' = [transcript EXCEPT !.segments = mirrored]
                    /\ translated_segments' = mirrored
                    /\ IF Subscriptable(mirrored)
                       THEN pc' = "voice" /\ UNCHANGED background_jobs
                       ELSE Fail("segment has no item 'text'")
               ELSE /\ pc' = "translate"
                    /\ UNCHANGED << background_jobs, transcript, translated_segments >>
    /\ UNCHANGED << http_status, pending, job, req, original_video, voice_id,
                    audio_file_path, dubbed_video_url, result, files, lookup_vars >>

\* steps 4 and 5
Translate ==
    /\ pc = "translate"
    /\ LET filtered == FilterSegments(transcript.segments)
       IN \E reply \in BatchReplies(TextsToTranslate(filtered)) :
          \E fb \in [FallbackPositions(filtered, reply.map) -> TextReplies] :
             LET r == TranslateTranscriptSegments(transcript.segments, reply, fb)
             IN /\ calls' = calls \o r.calls
                /\ IF r.ok
                   THEN /\ translated_segments' = r.value
                        /\ pc' = "voice"
                        /\ UNCHANGED background_jobs
                   ELSE /\ Fail(r.error)
                        /\ UNCHANGED translated_segments
    /\ UNCHANGED << http_status, pending, job, req, original_video, transcript,
                    source_language, voice_id, audio_file_path, dubbed_video_url,
                    result, files, lookup_vars >>

\* step 6, and the voice info request whose failure is only logged
ResolveVoice ==
    /\ pc = "voice"
    /\ \E sc \in CloneScenarios, reply \in ListingReplies :
         LET r == SelectVoice(req.target_language, req.voice_id,
                              req.clone_original_voice, sc, reply)
         IN /\ voice_id' = r.voice_id
            /\ files' = files \cup r.left
            /\ calls' = (calls \o r.calls) \o << Call("voice_info", << >>, "") >>
    /\ pc' = "synth"
    /\ UNCHANGED << background_jobs, http_status, pending, job, req, original_video,
                    transcript, source_language, translated_segments, audio_file_path,
                    dubbed_video_url, result, lookup_vars >>

\* lines 174-196 without the attempt to stream the original video
FallBackPlaceholderOnly(stream_ok) ==
    /\ dubbed_video_url' = PlaceholderUrl
    /\ audio_file_path' = DemoAudioPath
    /\ pc' = "finish"

\* lines 174-196: the original video's stream, or the placeholder
FallBack(stream_ok) ==
    /\ dubbed_video_url' = IF stream_ok THEN OriginalStream ELSE PlaceholderUrl
    /\ audio_file_path' = DemoAudioPath
    /\ pc' = "finish"

\* a fallback that uploads the video again to obtain a stream
UploadAgain(stream_ok) ==
    Call("upload", << >>, IF stream_ok THEN "ok" ELSE "error")

\* original_video.generate_stream()
StreamCall(stream_ok) ==
    Call("generate_stream", << >>, IF stream_ok THEN "ok" ELSE "error")

\* the separator strings removed at line 214, each taken as one character
SegmentArtifacts == { "---SEGMENT---", "###SEPARATOR###" }

\* text.replace('---SEGMENT---', '').replace('###SEPARATOR###', '')
RemoveArtifacts(text) ==
    LET Kept(c) == c \notin SegmentArtifacts IN SelectSeq(text, Kept)

\* lines 212-214: the text of one segment as it enters segment_texts
SpeechText(segment) == Strip(RemoveArtifacts(Strip(GetText(segment))))

\* " ".join(texts)
RECURSIVE Join(_)
Join(texts) ==
    IF texts = << >> THEN << >>
    ELSE IF Len(texts) = 1 THEN texts[1]
    ELSE (texts[1] \o << " " >>) \o Join(Tail(texts))

\* lines 210-218: combined_text
CombinedText(segments) ==
    LET NonEmpty(text) == text # << >>
    IN Join(SelectSeq([i \in 1..Len(segments) |-> SpeechText(segments[i])], NonEmpty))

\* generate_speech, line 141: text[:1000]
MaxSpeechChars == 1000
RequestText(text) ==
    SubSeq(text, 1, IF Len(text) < MaxSpeechChars THEN Len(text) ELSE MaxSpeechChars)

\* a synthesis step without the test for the demo voice
NeverSkips(id) == FALSE

\* voice_id.startswith("demo_"), which raises for None
SkipsSynthesis(id) == id = None \/ StartsWith(id, DemoPrefix)

\* step 7: generate_speech_with_timestamps creates its temporary file, then
\* returns "DEMO_MODE_NO_AUDIO" for a demo voice or a failed request
Synthesize ==
    /\ pc = "synth"
    /\ files' = files \cup {SynthTmp}
    /\ \E synth_ok \in BOOLEAN, stream_ok \in BOOLEAN :
         IF ~SkipsSynthesis(voice_id) /\ synth_ok
         THEN /\ calls' = Append(calls, Call("synthesize",
                                              RequestText(CombinedText(translated_segments)),
                                              "ok"))
              /\ audio_file_path' = SynthTmp
              /\ pc' = "mux"
              /\ UNCHANGED dubbed_video_url
         ELSE /\ calls' = (IF SkipsSynthesis(voice_id) THEN calls
                           ELSE Append(calls,
                                       Call("synthesize",
                                            RequestText(CombinedText(translated_segments)),
                                            "error")))
                          \o << StreamCall(stream_ok) >>
              /\ FallBack(stream_ok)
    /\ UNCHANGED << background_jobs, http_status, pending, job, req, original_video,
                    transcript, source_language, translated_segments, voice_id,
                    result, lookup_vars >>

\* step 8
Mux ==
    /\ pc = "mux"
    /\ \E mux_ok \in BOOLEAN, stream_ok \in BOOLEAN :
         IF mux_ok
         THEN /\ calls' = Append(calls, Call("create_dubbed_video", << >>, "ok"))
              /\ dubbed_video_url' = DubbedStream
              /\ pc' = "finish"
              /\ UNCHANGED audio_file_path
         ELSE /\ calls' = calls \o << Call("create_dubbed_video", << >>, "error"),
                                      StreamCall(stream_ok) >>
              /\ FallBack(stream_ok)
    /\ UNCHANGED << background_jobs, http_status, pending, job, req, original_video,
                    transcript, source_language, translated_segments, voice_id,
                    result, files, lookup_vars >>

\* the DubbingResult of lines 213-221
DubbingResult ==
    [video_url |-> dubbed_video_url, original_video_id |-> original_video.id,
     target_language |-> req.target_language, voice_id |-> voice_id,
     transcript |-> transcript, translated_transcript |-> translated_segments,
     audio_file_path |-> audio_file_path]

\* lines 200-221 (when cloning was asked for the default voice is looked up
\* once more, and the reply decides only what is logged) and the update of
\* process_dubbing with the result
Complete ==
    /\ pc = "finish"
    /\ calls' = IF req.clone_original_voice
                THEN Append(calls, Call("list_voices", << >>, "logged only"))
                ELSE calls
    /\ result' = DubbingResult
    /\ background_jobs' =
          Put(background_jobs, job,
              Update(background_jobs[job], CompletedFields(DubbingResult)))
    /\ pc' = "cleanup"
    /\ UNCHANGED << http_status, pending, job, req, original_video, transcript,
                    source_language, translated_segments, voice_id, audio_file_path,
                    dubbed_video_url, files, lookup_vars >>

\* a cleanup outside the try block of lines 386-390, whose failure reaches the
\* except branch of process_dubbing
CleanupTempFilesUnguarded ==
    /\ pc = "cleanup"
    /\ files' = files
    /\ Fail("cleanup failed")
    /\ UNCHANGED << http_status, pending, job, req, locals, calls, lookup_vars >>

\* cleanup_temp_files(result.audio_file_path)
CleanupTempFiles ==
    /\ pc = "cleanup"
    /\ files' = files \ {result.audio_file_path}
    /\ pc' = "done"
    /\ UNCHANGED << background_jobs, http_status, pending, job, req, locals, calls,
                    lookup_vars >>

\* process_dubbing returns: its locals are gone
Return ==
    /\ pc = "done"
    /\ pc' = "idle"
    /\ job' = ""
    /\ req' = NoRequest
    /\ original_video' = NoVideo
    /\ transcript' = NoTranscript
    /\ source_language' = Unset
    /\ translated_segments' = << >>
    /\ voice_id' = Unset
    /\ audio_file_path' = ""
    /\ dubbed_video_url' = ""
    /\ result' = NoResult
    /\ calls' = << >>
    /\ UNCHANGED << background_jobs, http_status, pending, files, lookup_vars >>

Next ==
    \/ SubmitJob
    \/ StartTask
    \/ Upload
    \/ GetTranscript
    \/ DetectSourceLanguage
    \/ Translate
    \/ ResolveVoice
    \/ Synthesize
    \/ Mux
    \/ Complete
    \/ CleanupTempFiles
    \/ Return

Spec == Init /\ [][Next]_vars

-----------------------------------------------------------------------------
(* Several jobs: the same handlers with two job ids, in an environment whose
   requests carry no voice id and no clone flag, whose transcript is empty or
   the padded Hola followed by a dash, and whose translation and listing
   endpoints give the replies named below.  FairSpecJobs adds that the event
   loop runs every task it was given and that every external call returns or
   raises: a step of process_dubbing that can be taken is taken. *)

ManyJobIds == { "job-1", "job-2" }

NarrowReplies ==
    [ list_voices |-> { ListingError },
      translate_text |-> { TextReply(<< " " >> \o Hello), ErrorReply("error") },
      batch_translate |->
         { ErrorReply("rate_limit"), JsonReply(<< >>), JsonReply(Str(0) :> Hello) } ]

Narrow ==
    /\ \A i \in 1..Len(pending) :
          pending[i].voice_id = None /\ ~pending[i].clone_original_voice
    /\ \/ transcript.segments = << >>
       \/ transcript.segments[1].text = << " " >> \o Hola \o << " " >>
    /\ \A k \in 1..Len(calls) :
          calls[k].op \in DOMAIN NarrowReplies => calls[k].reply \in NarrowReplies[calls[k].op]

\* the steps of the background task
RunTask ==
    \/ StartTask
    \/ Upload
    \/ GetTranscript /\ Narrow'
    \/ DetectSourceLanguage
    \/ Translate /\ Narrow'
    \/ ResolveVoice /\ Narrow'
    \/ Synthesize
    \/ Mux
    \/ Complete
    \/ CleanupTempFiles
    \/ Return

NextJobs ==
    \/ SubmitJobOf(ManyJobIds) /\ Narrow'
    \/ RunTask

SpecJobs == Init /\ [][NextJobs]_vars

FairSpecJobs == SpecJobs /\ WF_vars(RunTask)

-----------------------------------------------------------------------------
(* The translator on its own: translate_transcript_segments applied to every
   transcript of TranslatorInputs, in a job that has reached step 4 *)

InitTranslate ==
    /\ background_jobs =
          Put(<< >>, "job-1",
              [status |-> "processing", progress |-> 30,
               message |-> << "Extracting transcript..." >>])
    /\ http_status = 200
    /\ pending = << >>
    /\ pc = "translate"
    /\ job = "job-1"
    /\ req = [target_language |-> en, voice_id |-> None, clone_original_voice |-> FALSE]
    /\ original_video = [id |-> "video-1"]
    /\ \E segments \in TranslatorInputs :
          transcript = [segments |-> segments, video_id |-> "video-1"]
    /\ source_language = es
    /\ translated_segments = << >>
    /\ voice_id = Unset
    /\ audio_file_path = ""
    /\ dubbed_video_url = ""
    /\ result = NoResult
    /\ calls = << Call("upload", << >>, "ok"), Call("get_transcript", << >>, "ok"),
                  Call("detect_language", << >>, TextReply(es)) >>
    /\ files = {}
    /\ LookupIdle

SpecTranslate == InitTranslate /\ [][Translate]_vars

-----------------------------------------------------------------------------
(* The synthesis step on its own: generate_speech_with_timestamps applied to
   every list of SpeechInputs, in a job that has reached step 7 *)

\* number of segments of a synthesis input
MaxSpeechSegs == 2

LongText == [i \in 1..MaxSpeechChars |-> "a"]

\* the texts a translated segment may hold
SpeechTexts ==
    { << >>, << " " >>, (<< " " >> \o Hola) \o << " " >>,
      << "---SEGMENT---" >> \o Hello, World \o << " ", "###SEPARATOR###" >>,
      LongText }

RECURSIVE SpeechInputsOfLength(_)
SpeechInputsOfLength(n) ==
    IF n = 0 THEN { << >> }
    ELSE { Append(t, DictSeg(10 * (n - 1), 10 * (n - 1) + 8, text)) :
              t \in SpeechInputsOfLength(n - 1), text \in SpeechTexts }

SpeechInputs == UNION { SpeechInputsOfLength(n) : n \in 0..MaxSpeechSegs }

InitSpeech ==
    /\ background_jobs =
          Put(<< >>, "job-1",
              [status |-> "processing", progress |-> 30,
               message |-> << "Extracting transcript..." >>])
    /\ http_status = 200
    /\ pending = << >>
    /\ pc = "synth"
    /\ job = "job-1"
    /\ req = [target_language |-> en, voice_id |-> SuppliedVoice,
              clone_original_voice |-> FALSE]
    /\ original_video = [id |-> "video-1"]
    /\ transcript = [segments |-> << >>, video_id |-> "video-1"]
    /\ source_language = es
    /\ translated_segments \in SpeechInputs
    /\ voice_id = SuppliedVoice
    /\ audio_file_path = ""
    /\ dubbed_video_url = ""
    /\ result = NoResult
    /\ calls = << Call("upload", << >>, "ok"), Call("get_transcript", << >>, "ok"),
                  Call("detect_language", << >>, TextReply(es)),
                  Call("voice_info", << >>, "") >>
    /\ files = {}
    /\ LookupIdle

SpecSpeech == InitSpeech /\ [][Synthesize]_vars

-----------------------------------------------------------------------------
(* The default voice on its own: get_default_voice_id applied to a language,
   MaxLookups times, whatever the listing collaborator replies *)

LookupLanguages == { en, es, ko, ar, xx }

InitLookup ==
    /\ background_jobs = << >>
    /\ http_status = 0
    /\ pending = << >>
    /\ pc = "idle"
    /\ job = ""
    /\ req = NoRequest
    /\ original_video = NoVideo
    /\ transcript = NoTranscript
    /\ source_language = Unset
    /\ translated_segments = << >>
    /\ voice_id = Unset
    /\ audio_file_path = ""
    /\ dubbed_video_url = ""
    /\ result = NoResult
    /\ calls = << >>
    /\ files = {}
    /\ lookup_language \in LookupLanguages
    /\ lookups = << >>

\* the replies of the listing endpoint to a lookup: those of ListingReplies,
\* and a listing whose first voice has a null id
NullIdListing == Listing(<< Voice(None, "male") >>)
LookupReplies == ListingReplies \cup { NullIdListing }

DefaultVoiceLookup ==
    /\ Len(lookups) < MaxLookups
    /\ \E reply \in LookupReplies :
          lookups' = Append(lookups,
                            [reply |-> reply,
                             voice_id |-> GetDefaultVoiceId(lookup_language, reply)])
    /\ UNCHANGED << background_jobs, http_status, pending, pc, job, req, locals,
                    calls, files, lookup_language >>

SpecLookup == InitLookup /\ [][DefaultVoiceLookup]_vars

-----------------------------------------------------------------------------
(* Properties *)

\* the running job has made the call op and got reply
Made(op, reply) ==
    \E i \in 1..Len(calls) : calls[i].op = op /\ calls[i].reply = reply

\* the calls op of the running job, in order
CallsOf(op) == LET Is(c) == c.op = op IN SelectSeq(calls, Is)

Returning == pc \in {"cleanup", "done"} /\ background_jobs[job].status # "failed"

\* the number of segments the translated transcript of the running job holds
\* when no segment was lost
ExpectedSegments ==
    IF source_language = req.target_language
    THEN Len(transcript.segments)
    ELSE Len(FilterSegments(transcript.segments))

\* C1: when the synthesis request or the mux fails, the job is not failed: it
\* completes, the video URL of its result is the original video's stream, or
\* the placeholder when that stream cannot be generated either, and the
\* result still holds every translated segment.
C1_SynthesisFailureFallsBack ==
    (Made("synthesize", "error") \/ Made("create_dubbed_video", "error")) =>
        LET url == IF Made("generate_stream", "ok") THEN OriginalStream ELSE PlaceholderUrl
        IN /\ pc \in {"finish", "cleanup", "done"}
           /\ background_jobs[job].status # "failed"
           /\ dubbed_video_url = url
           /\ pc \in {"cleanup", "done"} =>
                /\ background_jobs[job].status = "completed"
                /\ background_jobs[job].result.video_url = url
                /\ result.video_url = url
                /\ result.translated_transcript = translated_segments
                /\ Len(result.translated_transcript) = ExpectedSegments

C1_Witness ==
    /\ pc = "done"
    /\ Made("synthesize", "error")
    /\ Made("generate_stream", "ok")
    /\ background_jobs[job].status = "completed"
    /\ result.video_url = OriginalStream
    /\ Len(result.translated_transcript) > 0
    /\ Made("batch_translate", JsonReply(Str(0) :> Hello))

\* C2: when the upload or the transcript extraction fails, the job is failed
\* with the error's message and the failing call is the last step of the job:
\* no language is detected, nothing is translated, no voice is resolved,
\* nothing is synthesized or muxed, and the job has no result.
C2_UploadOrTranscriptFailureIsFatal ==
    LET Halted(made, error) ==
            /\ pc = "done"
            /\ background_jobs[job].status = "failed"
            /\ background_jobs[job].message = << "Dubbing failed: ", error >>
            /\ "result" \notin DOMAIN background_jobs[job]
            /\ calls = made
            /\ source_language = Unset /\ translated_segments = << >>
            /\ voice_id = Unset /\ dubbed_video_url = "" /\ result = NoResult
    IN /\ Made("upload", "error") =>
            Halted(<< Call("upload", << >>, "error") >>, "upload failed")
       /\ Made("get_transcript", "error") =>
            Halted(<< Call("upload", << >>, "ok"), Call("get_transcript", << >>, "error") >>,
                   "transcript extraction failed")

C2_Witness ==
    /\ pc = "done"
    /\ Made("get_transcript", "error")
    /\ background_jobs[job].status = "failed"

-----------------------------------------------------------------------------
(* Properties of the translator (specification SpecTranslate) *)

\* the batch request of the running job has been answered with a JSON object
\* and translate_transcript_segments has returned
Translated == pc = "voice" /\ CallsOf("batch_translate") # << >>

BatchSent == CallsOf("batch_translate")[1].arg
BatchMap == CallsOf("batch_translate")[1].reply.map

\* the text of a segment before translation, trimmed
TrimmedText(seg) == Strip(GetText(seg))

\* C3: the translator's output has as many segments as the filtered input,
\* and at every position the start and the end of the input segment,
\* whether the batch reply held the segment's key or not and whether the
\* individual request then succeeded or failed.
C3_TranslatorPreservesCountAndTimes ==
    pc = "voice" =>
        LET filtered == FilterSegments(transcript.segments)
        IN /\ Len(translated_segments) = Len(filtered)
           /\ \A i \in 1..Len(filtered) :
                 /\ translated_segments[i].start = filtered[i].start
                 /\ translated_segments[i].end = filtered[i].end

C3_Witness ==
    /\ Translated
    /\ Len(translated_segments) = 2
    /\ DOMAIN BatchMap = { << "0" >> }
    /\ Made("translate_text", ErrorReply("error"))
    /\ translated_segments[2].start = 25 /\ translated_segments[2].end = 40

RECURSIVE IsSubsequence(_, _)
IsSubsequence(a, b) ==
    IF a = << >> THEN TRUE
    ELSE IF b = << >> THEN FALSE
    ELSE IF Head(a) = Head(b) THEN IsSubsequence(Tail(a), Tail(b))
    ELSE IsSubsequence(a, Tail(b))

\* trimmed text that is empty, a lone dash or one character long
DropCriteria(text) == text = << >> \/ text = Dash \/ Len(text) = 1

\* C4: the filter's output is a subsequence of its input in the input's
\* order, its length and the count of dropped segments add up to the input's
\* length, and no dict or text-carrying object it keeps has trimmed text that
\* is empty, a lone dash or one character long; so neither has any segment
\* the translator returns.
C4_FilterKeepsOrderedSubsequence ==
    LET segments == transcript.segments
        filtered == FilterSegments(segments)
    IN /\ IsSubsequence(filtered, segments)
       /\ Len(filtered) + EmptySegments(segments) = Len(segments)
       /\ \A i \in 1..Len(filtered) :
             filtered[i].kind \in {"dict", "object"} =>
                 ~DropCriteria(TrimmedText(filtered[i]))
       /\ pc = "voice" =>
             \A i \in 1..Len(translated_segments) :
                 ~DropCriteria(translated_segments[i].original_text)

C4_Witness ==
    /\ pc = "voice"
    /\ Len(transcript.segments) = 2
    /\ TrimmedText(transcript.segments[1]) = << "a" >>
    /\ EmptySegments(transcript.segments) = 1
    /\ Len(translated_segments) = 1
    /\ translated_segments[1].start = 10

RECURSIVE Ascending(_)
Ascending(S) ==
    IF S = {} THEN << >>
    ELSE LET least == CHOOSE x \in S : \A y \in S : x <= y
         IN << least >> \o Ascending(S \ {least})

\* what translate_text returns for a reply of TextReplies
CleanedReply(content) ==
    CASE content = << " " >> \o Hello -> Hello
      [] content = << Quote >> \o World \o << Quote >> -> World

\* C5: for the filtered segments whose key the batch reply lacks, in their
\* order, there is exactly one individual request each, sent with the
\* segment's (trimmed) original text; the segment's text is the request's
\* result when it succeeds and the original text when it fails; and the
\* output holds every filtered segment.
C5_MissingKeysAreRetriedOnce ==
    Translated =>
        LET filtered == FilterSegments(transcript.segments)
            missing == Ascending({ i \in 1..Len(filtered) : Str(i - 1) \notin DOMAIN BatchMap })
            individual == CallsOf("translate_text")
        IN /\ Len(individual) = Len(missing)
           /\ Len(translated_segments) = Len(filtered)
           /\ \A k \in 1..Len(missing) :
                 LET original == TrimmedText(filtered[missing[k]])
                 IN /\ individual[k].arg = original
                    /\ translated_segments[missing[k]].text =
                          IF individual[k].reply.kind = "ok"
                          THEN CleanedReply(individual[k].reply.content)
                          ELSE original

C5_Witness ==
    /\ Translated
    /\ transcript.segments = ExampleTranscript
    /\ BatchMap = << >>
    /\ CallsOf("translate_text") =
          << Call("translate_text", Hola, TextReply(<< Quote >> \o World \o << Quote >>)),
             Call("translate_text", Mundo, ErrorReply("rate_limit")) >>
    /\ translated_segments[1].text = World
    /\ translated_segments[2].text = Mundo

\* C6: the batch request holds, under the key str(i) of every position i
\* (from 0) of the filtered sequence, that segment's trimmed text; a
\* translation returned under key i becomes the text of the i-th filtered
\* segment, whose original_text is its trimmed text before translation.  For
\* [Hola, -, mundo] the batch is {"0": Hola, "1": mundo}, and the reply
\* {"0": Hello, "1": world} yields (0.0, 2.0, Hello, Hola), (2.5, 4.0, world, mundo).
C6_BatchIsKeyedByFilteredPosition ==
    Translated =>
        LET filtered == FilterSegments(transcript.segments)
        IN /\ DOMAIN BatchSent = { Str(i - 1) : i \in 1..Len(filtered) }
           /\ \A i \in 1..Len(filtered) :
                 /\ BatchSent[Str(i - 1)] = TrimmedText(filtered[i])
                 /\ Str(i - 1) \in DOMAIN BatchMap =>
                       /\ translated_segments[i].text = BatchMap[Str(i - 1)]
                       /\ translated_segments[i].original_text = TrimmedText(filtered[i])
                       /\ translated_segments[i].start = filtered[i].start
           /\ transcript.segments = ExampleTranscript =>
                 /\ BatchSent = (<< "0" >> :> Hola @@ << "1" >> :> Mundo)
                 /\ BatchMap = (<< "0" >> :> Hello @@ << "1" >> :> World) =>
                       translated_segments =
                          << [kind |-> "dict", start |-> 0, end |-> 20, text |-> Hello,
                              original_text |-> Hola],
                             [kind |-> "dict", start |-> 25, end |-> 40, text |-> World,
                              original_text |-> Mundo] >>

C6_Witness ==
    /\ Translated
    /\ transcript.segments = ExampleTranscript
    /\ BatchSent = (<< "0" >> :> Hola @@ << "1" >> :> Mundo)
    /\ BatchMap = (<< "0" >> :> Hello @@ << "1" >> :> World)
    /\ translated_segments[2].text = World
    /\ translated_segments[2].original_text = Mundo

-----------------------------------------------------------------------------
(* Properties of the same-language path and of voice resolution
   (specification Spec) *)

SameLanguage == source_language # Unset /\ source_language = req.target_language

\* C7: when the detected source language equals the target language, the job
\* makes no batch and no individual translation request, and every segment of
\* the translated transcript it goes on with, and returns, has a text equal to
\* its original_text.
C7_SameLanguageSkipsTranslation ==
    SameLanguage =>
        /\ CallsOf("batch_translate") = << >>
        /\ CallsOf("translate_text") = << >>
        /\ background_jobs[job].status # "failed" =>
              /\ Len(translated_segments) = Len(transcript.segments)
              /\ \A i \in 1..Len(translated_segments) :
                    /\ translated_segments[i].text = translated_segments[i].original_text
                    /\ translated_segments[i].start = transcript.segments[i].start
        /\ Returning =>
              /\ Len(result.translated_transcript) = Len(transcript.segments)
              /\ \A i \in 1..Len(result.translated_transcript) :
                    result.translated_transcript[i].text =
                       result.translated_transcript[i].original_text

C7_Witness ==
    /\ SameLanguage
    /\ pc = "done"
    /\ background_jobs[job].status = "completed"
    /\ Len(result.translated_transcript) = 2
    /\ result.translated_transcript[1].text = << " " >> \o Hola \o << " " >>
    /\ result.translated_transcript[1].original_text = << " " >> \o Hola \o << " " >>

\* step 6 of the running job is over
VoiceResolved == CallsOf("voice_info") # << >>

\* C8: voice resolution never fails the job and yields a non-empty voice id,
\* whether the request's voice id is absent, empty, blank or a voice id,
\* whatever the language and the clone flag, and whichever of the cloning and
\* listing collaborators fail.
C8_VoiceResolutionYieldsNonEmptyId ==
    VoiceResolved =>
        /\ voice_id # Unset
        /\ voice_id # None
        /\ voice_id # << >>
        /\ Len(voice_id) > 0
        /\ background_jobs[job].status # "failed"
        /\ pc \in {"synth", "mux", "finish", "cleanup", "done"}

C8_Witness ==
    /\ pc = "synth"
    /\ req.clone_original_voice
    /\ req.voice_id = << >>
    /\ Made("extract_audio", "error")
    /\ Made("list_voices", ListingError)
    /\ voice_id = << "JBFqnCBsd6RMkjVDRZzb" >>

\* the language default of the running job: what get_default_voice_id gave
\* for the target language in step 6, if step 6 looked it up
DefaultOfJob ==
    IF CallsOf("list_voices") = << >> THEN Unset
    ELSE GetDefaultVoiceId(req.target_language, CallsOf("list_voices")[1].reply)

\* C9 as stated: with cloning requested the cloned id on success and the
\* language default otherwise; else a non-empty supplied id verbatim; else the
\* language default.
C9_SuppliedNonEmptyIdIsUsedVerbatim ==
    VoiceResolved =>
        voice_id =
           IF req.clone_original_voice
           THEN IF Made("clone_voice", "ok") THEN ClonedVoice ELSE DefaultOfJob
           ELSE IF req.voice_id # None /\ req.voice_id # << >> THEN req.voice_id
           ELSE DefaultOfJob

\* C9: with cloning requested the voice is the cloned id when cloning
\* succeeds and the language default when any step of it fails, whatever id
\* the request carries; without cloning it is the supplied id verbatim when
\* that id is not blank (non-empty after trimming whitespace), and the
\* language default when the id is absent, empty or whitespace only.
C9_ResolutionOrder ==
    VoiceResolved =>
        /\ voice_id =
              IF req.clone_original_voice
              THEN IF Made("clone_voice", "ok") THEN ClonedVoice ELSE DefaultOfJob
              ELSE IF req.voice_id # None /\ Strip(req.voice_id) # << >> THEN req.voice_id
              ELSE DefaultOfJob
        /\ (req.clone_original_voice /\ ~Made("clone_voice", "ok")) =>
              Len(CallsOf("list_voices")) >= 1
        /\ (~req.clone_original_voice /\ req.voice_id = SuppliedVoice) =>
              CallsOf("list_voices") = << >>

C9_Witness ==
    /\ pc = "synth"
    /\ ~req.clone_original_voice
    /\ req.voice_id = << " " >>
    /\ req.target_language = es
    /\ Made("list_voices", Listing(<< >>))
    /\ voice_id = << "JBFqnCBsd6RMkjVDRZzb" >>

-----------------------------------------------------------------------------
(* Properties of the default voice (specification SpecLookup) *)

\* the fixed table of get_default_voice_id, for the languages of LookupLanguages
TableEntry ==
    CASE lookup_language = en -> << "IKne3meq5aSn9XLyUdCD" >>
      [] lookup_language = es -> << "JBFqnCBsd6RMkjVDRZzb" >>
      [] lookup_language = ko -> << "onwK4e9ZLuTAKqWW03F9" >>
      [] lookup_language = ar -> << "onwK4e9ZLuTAKqWW03F9" >>
      [] lookup_language = xx -> << "EXAVITQu4vr4xnSDxMaL" >>

\* C10 as stated: every lookup gives the id of the fixed table (or the global
\* default) for the language, whatever the listing returns, so two lookups for
\* one language give one id.
C10_DefaultIsTableEntry ==
    /\ \A i \in 1..Len(lookups) : lookups[i].voice_id = TableEntry
    /\ \A i, j \in 1..Len(lookups) : lookups[i].voice_id = lookups[j].voice_id

\* C10: a lookup gives the id of the fixed table (or the global default) for
\* the language when the listing fails, is empty or starts with a demo voice;
\* when the listing returns voices it gives the listing's first male voice, or
\* its first voice when none is male, whatever the language; when the first
\* listed voice has a null id it gives the demo voice.  Two lookups for one
\* language give one id when the listing replies the same both times.
C10_DefaultDependsOnListing ==
    /\ \A i \in 1..Len(lookups) :
          LET reply == lookups[i].reply
          IN lookups[i].voice_id =
                IF reply = Listing(<< Voice(<< "<None>" >>, "male") >>)
                THEN << "demo_", "multilingual_1" >>
                ELSE
                IF /\ reply.kind = "ok" /\ reply.voices # << >>
                   /\ SubSeq(reply.voices[1].voice_id, 1, 1) # << "demo_" >>
                THEN IF \E k \in 1..Len(reply.voices) : reply.voices[k].gender = "male"
                     THEN LET first == CHOOSE k \in 1..Len(reply.voices) :
                                          /\ reply.voices[k].gender = "male"
                                          /\ \A m \in 1..(k - 1) :
                                                reply.voices[m].gender # "male"
                          IN reply.voices[first].voice_id
                     ELSE reply.voices[1].voice_id
                ELSE TableEntry
    /\ \A i, j \in 1..Len(lookups) :
          lookups[i].reply = lookups[j].reply => lookups[i].voice_id = lookups[j].voice_id

C10_Witness ==
    /\ lookup_language = es
    /\ Len(lookups) = 2
    /\ lookups[1].reply = ListingError
    /\ lookups[1].voice_id = << "JBFqnCBsd6RMkjVDRZzb" >>
    /\ lookups[2].reply = Listing(<< Voice(FemaleVoice, "female"), Voice(MaleVoice, "male") >>)
    /\ lookups[2].voice_id = MaleVoice

\* the voice id carries the demo prefix
IsDemoVoice(id) == Len(id) > 0 /\ id[1] = "demo_"

\* C11 as stated: when the listing collaborator is unreachable the lookup gives
\* the demo voice, not a real voice id.
C11_UnreachableListingGivesDemoVoice ==
    \A i \in 1..Len(lookups) :
        lookups[i].reply.kind = "error" => IsDemoVoice(lookups[i].voice_id)

\* C11: when the listing collaborator is unreachable the lookup gives the id
\* of the fixed table (or the global default) for the language, which has no
\* demo prefix; it gives the demo voice demo_multilingual_1 only when the
\* lookup itself raises, as for a listing whose first voice has a null id.
C11_UnreachableListingGivesTableEntry ==
    \A i \in 1..Len(lookups) :
        /\ lookups[i].reply.kind = "error" =>
              /\ lookups[i].voice_id = TableEntry
              /\ ~IsDemoVoice(lookups[i].voice_id)
        /\ IsDemoVoice(lookups[i].voice_id) <=>
              /\ lookups[i].reply.kind = "ok"
              /\ lookups[i].reply.voices # << >>
              /\ lookups[i].reply.voices[1].voice_id = << "<None>" >>
        /\ IsDemoVoice(lookups[i].voice_id) =>
              lookups[i].voice_id = << "demo_", "multilingual_1" >>

C11_Witness ==
    /\ lookup_language = xx
    /\ Len(lookups) = 2
    /\ lookups[1].reply.kind = "error"
    /\ lookups[1].voice_id = << "EXAVITQu4vr4xnSDxMaL" >>
    /\ lookups[2].reply.kind = "ok"
    /\ lookups[2].voice_id = << "demo_", "multilingual_1" >>

-----------------------------------------------------------------------------
(* Properties of the pipeline's error handling and order (specification Spec) *)

\* C12: when the resolved voice id has the prefix demo_, the job sends no
\* synthesis request and attempts no mux; after step 7 it is building the
\* fallback result (the original stream or the placeholder, and the demo audio
\* path), and it ends completed.
C12_DemoVoiceSkipsSynthesis ==
    (VoiceResolved /\ IsDemoVoice(voice_id)) =>
        /\ CallsOf("synthesize") = << >>
        /\ CallsOf("create_dubbed_video") = << >>
        /\ pc \in {"synth", "finish", "cleanup", "done"}
        /\ background_jobs[job].status # "failed"
        /\ pc # "synth" =>
              /\ Len(CallsOf("generate_stream")) = 1
              /\ audio_file_path = "demo_mode_translation_complete.txt"
              /\ dubbed_video_url =
                    IF Made("generate_stream", "ok") THEN OriginalStream ELSE PlaceholderUrl
        /\ pc \in {"cleanup", "done"} => background_jobs[job].status = "completed"

C12_Witness ==
    /\ pc = "done"
    /\ voice_id = << "demo_", "multilingual_1" >>
    /\ req.voice_id = voice_id
    /\ background_jobs[job].status = "completed"
    /\ result.video_url = OriginalStream
    /\ CallsOf("synthesize") = << >>

\* the running job has failed with the message of error, and the call that
\* raised it is the last one the job made
FailedAt(op, error) ==
    /\ pc = "done"
    /\ background_jobs[job].status = "failed"
    /\ background_jobs[job].progress = 0
    /\ background_jobs[job].message = << "Dubbing failed: ", error >>
    /\ "result" \notin DOMAIN background_jobs[job]
    /\ calls[Len(calls)].op = op

\* C13: when the reply to the batch request is no JSON, the translator
\* raises: the job has no translated segment, makes no individual request and
\* no later call, and is failed with the translator's message.
C13_InvalidJsonFailsTheBatch ==
    Made("batch_translate", ErrorReply("invalid_json")) =>
        /\ FailedAt("batch_translate", "Translation service returned invalid response format.")
        /\ Len(CallsOf("batch_translate")) = 1
        /\ CallsOf("translate_text") = << >>
        /\ translated_segments = << >>
        /\ voice_id = Unset
        /\ result = NoResult

C13_Witness ==
    /\ pc = "done"
    /\ Made("batch_translate", ErrorReply("invalid_json"))
    /\ Len(FilterSegments(transcript.segments)) = 1
    /\ background_jobs[job].status = "failed"

\* a rate-limit or authentication failure
IsRefusal(reply) == reply.kind \in {"rate_limit", "auth"}

Refused(op) == \E i \in 1..Len(calls) : calls[i].op = op /\ IsRefusal(calls[i].reply)

\* C14 as stated: a rate-limit or authentication failure of the batch request
\* or of an individual request fails the job, and the request is not made
\* again.
C14_EveryRefusalFailsTheJob ==
    (Refused("batch_translate") \/ Refused("translate_text")) =>
        /\ pc = "done"
        /\ background_jobs[job].status = "failed"
        /\ Len(CallsOf("batch_translate")) = 1

\* C14: a rate-limit or authentication failure of the batch request fails the
\* job with the message of its kind, and the request is not made again nor
\* replaced by individual requests; such a failure of an individual request
\* is not surfaced: the segment keeps its original text, the request is not
\* made again, and the job goes on and completes.
C14_BatchRefusalFailsTheJob ==
    /\ Made("batch_translate", ErrorReply("rate_limit")) =>
          FailedAt("batch_translate",
                   "Translation service temporarily unavailable - rate limit exceeded. Please try again later.")
    /\ Made("batch_translate", ErrorReply("auth")) =>
          FailedAt("batch_translate",
                   "Translation service authentication failed. Please check API key.")
    /\ Refused("batch_translate") =>
          /\ Len(CallsOf("batch_translate")) = 1
          /\ CallsOf("translate_text") = << >>
          /\ translated_segments = << >>
    /\ Refused("translate_text") =>
          /\ background_jobs[job].status # "failed"
          /\ Len(CallsOf("batch_translate")) = 1
          /\ Len(CallsOf("translate_text")) <= Len(translated_segments)
          /\ \A k \in 1..Len(calls) :
                (calls[k].op = "translate_text" /\ IsRefusal(calls[k].reply)) =>
                    \E i \in 1..Len(translated_segments) :
                        /\ translated_segments[i].original_text = calls[k].arg
                        /\ translated_segments[i].text = calls[k].arg
          /\ pc \in {"cleanup", "done"} => background_jobs[job].status = "completed"

C14_Witness ==
    /\ pc = "done"
    /\ Made("translate_text", ErrorReply("rate_limit"))
    /\ background_jobs[job].status = "completed"
    /\ Len(result.translated_transcript) = 1
    /\ result.translated_transcript[1].text = Hola

\* the step of dub_video an external call belongs to
StepOf(op) ==
    CASE op = "upload" -> 1
      [] op = "get_transcript" -> 2
      [] op = "detect_language" -> 3
      [] op \in {"batch_translate", "translate_text"} -> 4
      [] op \in {"extract_audio", "download_audio", "clone_voice", "list_voices",
                 "voice_info"} -> 6
      [] op = "synthesize" -> 7
      [] op = "create_dubbed_video" -> 8
      [] op = "generate_stream" -> 9

\* the calls a job makes at most once
SingleCalls ==
    { "upload", "get_transcript", "detect_language", "batch_translate", "extract_audio",
      "download_audio", "clone_voice", "voice_info", "synthesize", "create_dubbed_video",
      "generate_stream" }

\* the calls of log are in the order of the steps, none of SingleCalls twice
InStepOrder(log) ==
    /\ \A i, j \in 1..Len(log) : i < j => StepOf(log[i].op) <= StepOf(log[j].op)
    /\ \A i, j \in 1..Len(log) :
          (i < j /\ log[i].op \in SingleCalls) => log[i].op # log[j].op

\* C15 as stated: the external calls of a job are in the order upload,
\* transcript, detection, translation, voice resolution, synthesis, mux (and
\* the stream of the fallback), no step twice and none after a later one.
C15_CallsInStepOrder == InStepOrder(calls)

\* dub_video has returned to process_dubbing after a request to clone
\* the voice
ReturnedAfterCloneRequest ==
    /\ pc \in {"cleanup", "done"}
    /\ background_jobs[job].status = "completed"
    /\ req.clone_original_voice

\* C15: the external calls of a job are in the order upload, transcript,
\* detection, translation, voice resolution, synthesis, mux (and the stream of
\* the fallback), no step twice and none after a later one, except that a job
\* asked to clone the voice looks up the default voice (a voice-listing
\* request) once more after synthesis and mux, as its last call.
C15_CallsInStepOrderButLastLookup ==
    IF ReturnedAfterCloneRequest
    THEN /\ calls[Len(calls)].op = "list_voices"
         /\ InStepOrder(SubSeq(calls, 1, Len(calls) - 1))
         /\ Len(CallsOf("list_voices")) <= 2
    ELSE /\ InStepOrder(calls)
         /\ Len(CallsOf("list_voices")) <= 1

C15_Witness ==
    /\ pc = "done"
    /\ req.clone_original_voice
    /\ Made("clone_voice", "ok")
    /\ Made("create_dubbed_video", "ok")
    /\ Len(calls) = 10
    /\ calls[9].op = "create_dubbed_video"
    /\ calls[10].op = "list_voices"

-----------------------------------------------------------------------------
(* Properties of the job map (specifications SpecJobs and FairSpecJobs) *)

Terminal(id) ==
    id \in DOMAIN background_jobs /\ background_jobs[id].status \in {"completed", "failed"}

\* C16: every accepted job eventually has the status completed or failed,
\* given that the event loop runs its task and every external call returns or
\* raises.
C16_EveryJobTerminates ==
    \A id \in ManyJobIds : (id \in DOMAIN background_jobs) ~> Terminal(id)

C16_Witness ==
    /\ pc = "idle"
    /\ pending = << >>
    /\ Terminal("job-1") /\ background_jobs["job-1"].status = "failed"
    /\ Terminal("job-2") /\ background_jobs["job-2"].status = "completed"

WellFormed(record) ==
    /\ record.status \in {"started", "processing", "completed", "failed"}
    /\ record.progress \in 0..100

\* C17: every step leaves every record of the job map in place, leaves every
\* record with a status among started, processing, completed, failed and an
\* integer progress in 0..100, and creates a record only with status started
\* and progress 0.
C17_JobRecordsWellFormedAndPermanent ==
    [][/\ DOMAIN background_jobs \subseteq DOMAIN background_jobs'
       /\ \A id \in DOMAIN background_jobs' :
             /\ WellFormed(background_jobs'[id])
             /\ id \notin DOMAIN background_jobs =>
                   /\ background_jobs'[id].status = "started"
                   /\ background_jobs'[id].progress = 0]_vars

C17_Witness ==
    /\ DOMAIN background_jobs = {"job-1", "job-2"}
    /\ background_jobs["job-1"].status = "completed"
    /\ background_jobs["job-1"].progress = 100
    /\ background_jobs["job-2"].status = "processing"
    /\ background_jobs["job-2"].progress = 30

\* C18: a step changes no record of the job map but that of the job whose
\* task is running: the records of all other jobs stay as they are.
C18_UpdateChangesOneRecord ==
    [][\A id \in DOMAIN background_jobs :
          id # job' =>
             /\ id \in DOMAIN background_jobs'
             /\ background_jobs'[id] = background_jobs[id]]_vars

C18_Witness ==
    /\ job = "job-1"
    /\ pc = "done"
    /\ background_jobs["job-1"].status = "failed"
    /\ "job-2" \in DOMAIN background_jobs
    /\ background_jobs["job-2"] =
          [status |-> "started", progress |-> 0,
           message |-> << "Starting dubbing process..." >>]

\* a task is between its first step and its terminal status
InProgress == pc \in {"upload", "transcript", "detect", "translate", "voice", "synth", "mux", "finish"}

\* C19: jobs run concurrently: while the task of one job is in progress, the
\* task of another accepted job can take its first step.
C19_WaitingJobCanStart ==
    (InProgress /\ pending # << >>) => ENABLED StartTask

-----------------------------------------------------------------------------
(* The temporary audio file of the synthesis step (specification Spec) *)

\* C20: once the task of a job has finished, the temporary audio file created
\* for its synthesis step does not exist, whichever way the job went.
C20_SynthesisFileDeleted ==
    pc = "done" => SynthTmp \notin files

-----------------------------------------------------------------------------
(* Language detection (specification Spec) *)

\* the detection request of the running job got no usable reply
DetectionFailed ==
    \E i \in 1..Len(calls) : calls[i].op = "detect_language" /\ calls[i].reply.kind # "ok"

\* C21: a detection request that fails or returns a malformed response gives
\* the source language en and does not fail the job: the step goes on to the
\* translation or, the target being en as well, to the voice, and ends the
\* job only where the segments of the untranslated transcript cannot be read.
C21_DetectionFailureGivesDefault ==
    [][(pc = "detect" /\ pc' # "detect" /\ DetectionFailed') =>
          /\ source_language' = en
          /\ pc' \in {"translate", "voice", "done"}
          /\ pc' = "translate" <=> req.target_language # en
          /\ pc' = "done" =>
                /\ req.target_language = en
                /\ ~Subscriptable(Mirrored(transcript.segments))]_vars

C21_Witness ==
    /\ pc = "done"
    /\ Made("detect_language", ErrorReply("malformed"))
    /\ source_language = en
    /\ Made("batch_translate", JsonReply(Str(0) :> Hello))
    /\ background_jobs[job].status = "completed"

LowercaseLetters ==
    { "a", "b", "c", "d", "e", "f", "g", "h", "i", "j", "k", "l", "m",
      "n", "o", "p", "q", "r", "s", "t", "u", "v", "w", "x", "y", "z" }

IsLanguageCode(code) ==
    Len(code) = 2 /\ \A i \in 1..Len(code) : code[i] \in LowercaseLetters

\* C22: whatever the detection collaborator replies, the detected source
\* language is a code of two lowercase letters.
C22_DetectedLanguageIsTwoLetterCode ==
    source_language # Unset => IsLanguageCode(source_language)

-----------------------------------------------------------------------------
(* The empty batch (specification SpecTranslate) *)

\* the key-to-text map of the transcript was built and holds no key
EmptyBatch ==
    LET filtered == FilterSegments(transcript.segments)
    IN /\ \A i \in 1..Len(filtered) : filtered[i].kind = "dict"
       /\ DOMAIN TextsToTranslate(filtered) = {}

\* the requests made to the translation collaborator by the running job
TranslationCalls ==
    LET Translation(c) == c.op \in {"batch_translate", "translate_text"}
    IN SelectSeq(calls, Translation)

\* C23: when the map of texts to translate is empty, the translator returns
\* the empty list and has made no request to the translation collaborator.
C23_EmptyBatchMakesNoCall ==
    (pc # "translate" /\ EmptyBatch) =>
        /\ pc = "voice"
        /\ translated_segments = << >>
        /\ TranslationCalls = << >>

C23_Witness ==
    /\ pc = "voice"
    /\ Len(transcript.segments) = 2
    /\ EmptyBatch
    /\ translated_segments = << >>
    /\ TranslationCalls = << >>

-----------------------------------------------------------------------------
(* The text of the synthesis request (specification SpecSpeech) *)

\* the text segment i contributes: trimmed, the separator strings taken out
Cleaned(segments, i) ==
    LET IsText(c) == c # "---SEGMENT---" /\ c # "###SEPARATOR###"
    IN Strip(SelectSeq(Strip(segments[i].text), IsText))

\* the non-empty contributions of the segments from position i on, in segment
\* order, with one space between two of them
RECURSIVE Spoken(_, _)
Spoken(segments, i) ==
    IF i > Len(segments) THEN << >>
    ELSE LET first == Cleaned(segments, i)
             rest == Spoken(segments, i + 1)
         IN IF first = << >> THEN rest
            ELSE IF rest = << >> THEN first
            ELSE (first \o << " " >>) \o rest

SynthesisRequests == CallsOf("synthesize")

\* C24: the synthesis request carries the whole concatenation, in segment
\* order and separated by single spaces, of the trimmed non-empty texts of the
\* translated segments with the separator strings removed: nothing is omitted
\* or cut off.
C24_RequestCarriesWholeText ==
    \A k \in 1..Len(SynthesisRequests) :
        SynthesisRequests[k].arg = Spoken(translated_segments, 1)

-----------------------------------------------------------------------------
(* The demo tag of a result (specification Spec) *)

\* C25: the result of a completed job is tagged as demo exactly when it is a
\* fallback result: the record of a job whose video URL is the stream of the
\* dubbed video is not tagged, that of a job whose synthesis or mux failed is.
C25_DemoTagTellsFallbackFromDubbing ==
    \A id \in DOMAIN background_jobs :
        background_jobs[id].status = "completed" =>
            (background_jobs[id].result.demo_mode
                <=> background_jobs[id].result.video_url # DubbedStream)

-----------------------------------------------------------------------------
(* Rejected requests (specification Spec) *)

\* C26: a request that names an unsupported target language is answered with
\* the status 400, creates no record in the job map and queues no task.  (A
\* step of the handler that queues no task is the answer to such a request.)
C26_UnsupportedLanguageGets400 ==
    [][(pc = "idle" /\ pc' = "idle" /\ pending' = pending) =>
          /\ http_status' = 400
          /\ background_jobs' = background_jobs]_vars

-----------------------------------------------------------------------------
(* Terminal records (specification Spec) *)

\* C27: a record whose status is completed or failed is changed by no later
\* step, the cleanup of the temporary file included, and no failed record
\* carries a result.
C27_TerminalRecordsAreFinal ==
    [][/\ \A id \in DOMAIN background_jobs :
             background_jobs[id].status \in {"completed", "failed"} =>
                /\ id \in DOMAIN background_jobs'
                /\ background_jobs'[id] = background_jobs[id]
       /\ \A id \in DOMAIN background_jobs' :
             background_jobs'[id].status = "failed" =>
                "result" \notin DOMAIN background_jobs'[id]]_vars

C27_Witness ==
    /\ pc = "done"
    /\ background_jobs[job].status = "completed"
    /\ "result" \in DOMAIN background_jobs[job]
    /\ result.audio_file_path = SynthTmp
    /\ SynthTmp \notin files

-----------------------------------------------------------------------------
(* The segments of the translated transcript (specification Spec) *)

\* a text that is neither empty, nor a lone dash, nor a single character
\* once trimmed
Substantial(text) ==
    LET trimmed == Strip(text)
    IN Len(trimmed) >= 2

\* C28 as stated: whether translation ran or was skipped, the translated
\* transcript of a completed run holds no segment whose trimmed text is
\* empty, a lone dash or a single character.
C28_ResultHoldsNoShortText ==
    Returning /\ pc = "done" =>
        \A i \in 1..Len(result.translated_transcript) :
            Substantial(result.translated_transcript[i].text)

\* C28: in a completed run in which translation ran, the translated
\* transcript holds no segment whose text before translation, trimmed, is
\* empty, a lone dash or a single character.
C28_TranslatedRunHoldsNoShortOriginal ==
    (Returning /\ pc = "done" /\ source_language # req.target_language) =>
        \A i \in 1..Len(result.translated_transcript) :
            Substantial(result.translated_transcript[i].original_text)

C28_Witness ==
    /\ Returning /\ pc = "done"
    /\ source_language # req.target_language
    /\ Len(transcript.segments) = 2
    /\ Len(result.translated_transcript) = 1
    /\ result.translated_transcript[1].original_text = Hola
    /\ result.translated_transcript[1].text = << "I" >>

-----------------------------------------------------------------------------
(* The transcript of the result (specification Spec) *)

\* dub_video holds the transcript it received and has not returned yet
HoldsTranscript ==
    pc \in {"detect", "translate", "voice", "synth", "mux", "finish"}

\* after is the segment before with original_text set to its text, when it
\* is a dict, and the segment before itself otherwise
MirrorOf(before, after) ==
    IF before.kind # "dict" THEN after = before
    ELSE /\ DOMAIN after = (DOMAIN before) \cup {"original_text"}
         /\ \A f \in DOMAIN before : f # "original_text" => after[f] = before[f]
         /\ after.original_text = (IF "text" \in DOMAIN before THEN before.text ELSE << >>)

\* C29 as stated: no step of the pipeline changes the transcript received
\* from the transcription collaborator, and the result carries it as received.
C29_TranscriptIsNeverModified ==
    [][HoldsTranscript =>
          /\ transcript' = transcript
          /\ pc' = "cleanup" => result'.transcript = transcript]_vars

\* C29: when translation runs no step changes the transcript received from
\* the transcription collaborator; when it is skipped the detection step
\* adds original_text, equal to the text, to every dict segment of the
\* transcript and changes nothing else; the result carries the transcript so
\* obtained.
C29_TranscriptGainsOnlyOriginalTextWhenSkipped ==
    [][HoldsTranscript =>
          /\ pc' = "cleanup" => result'.transcript = transcript
          /\ \/ transcript' = transcript
             \/ /\ pc = "detect"
                /\ source_language' = req.target_language
                /\ transcript'.video_id = transcript.video_id
                /\ Len(transcript'.segments) = Len(transcript.segments)
                /\ \A i \in 1..Len(transcript.segments) :
                      MirrorOf(transcript.segments[i], transcript'.segments[i])
                /\ translated_segments' = transcript'.segments]_vars

C29_Witness ==
    /\ Returning /\ pc = "done"
    /\ source_language = req.target_language
    /\ Len(result.transcript.segments) = 2
    /\ result.transcript.segments[1].text = (<< " " >> \o Hola) \o << " " >>
    /\ result.transcript.segments[1].original_text = (<< " " >> \o Hola) \o << " " >>
    /\ result.translated_transcript = result.transcript.segments

-----------------------------------------------------------------------------
(* The audio sample of the cloning step (specification Spec) *)

\* C30: whichever way _clone_original_voice returns (download failed, sample
\* too small, cloning request failed, voice cloned), the temporary audio
\* sample it created no longer exists afterwards.
C30_CloneSampleDeleted ==
    CloneTmp \notin files

=============================================================================
